---- MODULE Spec2Model ----
(***************************************************************************)
(* Model of backend/src/openai_handler.py: the lazily initialised static   *)
(* OpenAI client (get_client / _initialize_client) and the request /       *)
(* validation pipeline of OpenAIHandler.get_response.                      *)
(*                                                                         *)
(* A reply's text is a sequence of lexical tokens; json.loads is a         *)
(* recursive-descent parser over those tokens.  Strings are sequences of   *)
(* characters so that Python's in on a str (substring search) can be     *)
(* computed.                                                               *)
(***************************************************************************)
EXTENDS Integers, Sequences, FiniteSets, TLC

\* ------------------------------------------------------------------ bounds
\* Number of requests that may be in flight at once (callers of the handler).
NumRequests == 2

\* Longest reply, in tokens, enumerated exhaustively (longer replies are the
\* named samples below).
MaxTokLen == 3

\* key_failures counts the failures of the secrets provider up to this many;
\* further failures leave it there.
MaxKeyFailures == 2

\* --------------------------------------------------------- program constants
GPT_MODEL == "gpt-3.5-turbo"

SEED == 69

RESPONSE_FORMAT == [type |-> "json_object"]

\* The value SecretsHandler.get_gpt_prompt() returned when the class body ran.
PROMPT == <<"system", " ", "prompt">>

\* ------------------------------------------------------------------ strings
GENRES == <<"g", "e", "n", "r", "e", "s">>

MOOD == <<"m", "o", "o", "d">>

HAPPY == <<"h", "a", "p", "p", "y">>

POP == <<"p", "o", "p">>

ROCK == <<"r", "o", "c", "k">>

JAZZ == <<"j", "a", "z", "z">>

BLUES == <<"b", "l", "u", "e", "s">>

FOLK == <<"f", "o", "l", "k">>

MY_GENRES == <<"m", "y", " ">> \o GENRES

\* Python x in s for two str values: x occurs in s as a contiguous run.
StrContains(s, x) ==
    \E i \in 0..(Len(s) - Len(x)) :
        \A j \in 1..Len(x) : s[i + j] = x[j]

\* ------------------------------------------------------------------- tokens
Tok(t, s) == [t |-> t, s |-> s]

LBRACE == Tok("{", <<>>)

RBRACE == Tok("}", <<>>)

LBRACK == Tok("[", <<>>)

RBRACK == Tok("]", <<>>)

COLON == Tok(":", <<>>)

COMMA == Tok(",", <<>>)

WS == Tok("ws", <<>>)

NULL == Tok("null", <<>>)

FIVE == Tok("num", <<"5">>)

\* A bare word such as not or json: no JSON value starts with it.
JUNK == Tok("junk", <<"n", "o", "t">>)

S(chars) == Tok("str", chars)

\* ------------------------------------------------------------- JSON values
StrVal(chars) == [k |-> "str", v |-> chars]

NumVal(digits) == [k |-> "num", v |-> digits]

NoneVal == [k |-> "null", v |-> <<>>]

ListVal(elems) == [k |-> "list", v |-> elems]

DictVal(items) == [k |-> "dict", v |-> items]

\* dict.__setitem__: a repeated key keeps its first position and takes the
\* last value.
DictPut(items, key, val) ==
    IF \E i \in 1..Len(items) : items[i].key = key
    THEN [i \in 1..Len(items) |->
            IF items[i].key = key THEN [key |-> key, val |-> val] ELSE items[i]]
    ELSE Append(items, [key |-> key, val |-> val])

DictHas(items, key) == \E i \in 1..Len(items) : items[i].key = key

DictGet(items, key) ==
    items[CHOOSE i \in 1..Len(items) : items[i].key = key].val

\* ----------------------------------------------------------------- json.loads
RECURSIVE SkipWs(_)
SkipWs(ts) ==
    IF ts # <<>> /\ Head(ts).t = "ws" THEN SkipWs(Tail(ts)) ELSE ts

ParseOk(val, rest) == [ok |-> TRUE, val |-> val, rest |-> rest]

ParseFail == [ok |-> FALSE, val |-> NoneVal, rest |-> <<>>]

RECURSIVE ParseValue(_), ParseElems(_, _), ParseMembers(_, _)
ParseValue(ts0) ==
    LET ts == SkipWs(ts0) IN
    IF ts = <<>> THEN ParseFail
    ELSE LET h == Head(ts)
             r == SkipWs(Tail(ts))
         IN  CASE h.t = "str"  -> ParseOk(StrVal(h.s), Tail(ts))
               [] h.t = "num"  -> ParseOk(NumVal(h.s), Tail(ts))
               [] h.t = "null" -> ParseOk(NoneVal, Tail(ts))
               [] h.t = "["    ->
                    IF r # <<>> /\ Head(r).t = "]"
                    THEN ParseOk(ListVal(<<>>), Tail(r))
                    ELSE ParseElems(r, <<>>)
               [] h.t = "{"    ->
                    IF r # <<>> /\ Head(r).t = "}"
                    THEN ParseOk(DictVal(<<>>), Tail(r))
                    ELSE ParseMembers(r, <<>>)
               [] OTHER        -> ParseFail

\* The elements of an array after [: value (, value)* ].
ParseElems(ts, acc) ==
    LET e == ParseValue(ts) IN
    IF ~e.ok THEN ParseFail
    ELSE LET r == SkipWs(e.rest) IN
         IF r = <<>> THEN ParseFail
         ELSE CASE Head(r).t = "," -> ParseElems(Tail(r), Append(acc, e.val))
                [] Head(r).t = "]" -> ParseOk(ListVal(Append(acc, e.val)), Tail(r))
                [] OTHER           -> ParseFail

\* The members of an object after {: string : value (, ...)* }.
ParseMembers(ts0, acc) ==
    LET ts == SkipWs(ts0) IN
    IF ts = <<>> \/ Head(ts).t # "str" THEN ParseFail
    ELSE LET key == Head(ts).s
             c   == SkipWs(Tail(ts))
         IN  IF c = <<>> \/ Head(c).t # ":" THEN ParseFail
             ELSE LET e == ParseValue(Tail(c)) IN
                  IF ~e.ok THEN ParseFail
                  ELSE LET r == SkipWs(e.rest) IN
                       IF r = <<>> THEN ParseFail
                       ELSE CASE Head(r).t = "," ->
                                   ParseMembers(Tail(r), DictPut(acc, key, e.val))
                              [] Head(r).t = "}" ->
                                   ParseOk(DictVal(DictPut(acc, key, e.val)), Tail(r))
                              [] OTHER -> ParseFail

\* json.loads(text): one value, then only whitespace up to the end.
Loads(toks) ==
    LET p == ParseValue(toks) IN
    IF p.ok /\ SkipWs(p.rest) = <<>> THEN ParseOk(p.val, <<>>) ELSE ParseFail

\* ------------------------------------------------ repr() of a parsed value
RECURSIVE Repr(_), ReprElems(_, _), ReprItems(_, _)
\* Python's repr of a parsed value, as text pieces.
Repr(val) ==
    CASE val.k = "str"  -> <<"'">> \o val.v \o <<"'">>
      [] val.k = "num"  -> val.v
      [] val.k = "null" -> <<"None">>
      [] val.k = "list" -> <<"[">> \o ReprElems(val.v, 1) \o <<"]">>
      [] val.k = "dict" -> <<"{">> \o ReprItems(val.v, 1) \o <<"}">>

ReprElems(elems, i) ==
    IF i > Len(elems) THEN <<>>
    ELSE (IF i > 1 THEN <<", ">> ELSE <<>>)
         \o Repr(elems[i]) \o ReprElems(elems, i + 1)

ReprItems(items, i) ==
    IF i > Len(items) THEN <<>>
    ELSE (IF i > 1 THEN <<", ">> ELSE <<>>)
         \o Repr(StrVal(items[i].key)) \o <<": ">> \o Repr(items[i].val)
         \o ReprItems(items, i + 1)

\* str(content_json), as the f-string formats it: a top-level str is written
\* bare, anything else as its repr.
Format(val) == IF val.k = "str" THEN val.v ELSE Repr(val)

\* ------------------------------------------------------ outcomes of a call
NoResult == [kind |-> "none", exc |-> "", msg |-> <<>>, value |-> NoneVal]

Returned(value) == [kind |-> "return", exc |-> "", msg |-> <<>>, value |-> value]

Raised(exc, msg) == [kind |-> "raise", exc |-> exc, msg |-> msg, value |-> NoneVal]

MSG_PREFIX == <<"Something went wrong retrieving a response from GPT. ">>

MSG_NO_RESPONSE == MSG_PREFIX \o <<"No response was provided.">>

MSG_NOT_JSON ==
    MSG_PREFIX \o <<"The provided response could not be parsed into JSON.">>

MSG_NO_GENRES(content_json) ==
    MSG_PREFIX \o <<"The parsed JSON ">> \o Format(content_json)
               \o <<" ">> \o <<"does not contain the genres key.">>

\* The reply of the remote call as response.choices[0].message.content:
\* None, or a str (possibly empty).
NoContent == [some |-> FALSE, toks |-> <<>>]

Text(toks) == [some |-> TRUE, toks |-> toks]

\* not found_content: None and "" are falsy.
Falsy(found_content) == ~found_content.some \/ found_content.toks = <<>>

\* "genres" in content_json on a value that supports in.
Contains(content_json) ==
    CASE content_json.k = "dict" -> DictHas(content_json.v, GENRES)
      [] content_json.k = "list" ->
            \E i \in 1..Len(content_json.v) : content_json.v[i] = StrVal(GENRES)
      [] content_json.k = "str"  -> StrContains(content_json.v, GENRES)
      [] OTHER -> FALSE

TypeName(val) ==
    CASE val.k = "num" -> "int" [] val.k = "null" -> "NoneType"
      [] val.k = "list" -> "list" [] val.k = "str" -> "str" [] OTHER -> "dict"

\* Subscript, but cutting the list down to the five genres the prompt asks for.
Subscript_first_five(content_json) ==
    IF content_json.k = "dict"
    THEN LET g == DictGet(content_json.v, GENRES) IN
         Returned(IF g.k = "list" /\ Len(g.v) > 5
                  THEN ListVal(SubSeq(g.v, 1, 5)) ELSE g)
    ELSE Raised("TypeError", <<"indices must be integers">>)

\* content_json['genres']
Subscript(content_json) ==
    CASE content_json.k = "dict" -> Returned(DictGet(content_json.v, GENRES))
      [] content_json.k = "list" ->
            Raised("TypeError",
                   <<"list indices must be integers or slices, not str">>)
      [] OTHER ->
            Raised("TypeError", <<"string indices must be integers">>)

\* Lines 125-134: the genres check and the return.
check_genres(content_json) ==
    IF content_json.k \in {"num", "null"}
    THEN Raised("TypeError",
                <<"argument of type '", TypeName(content_json),
                  "' is not iterable">>)
    ELSE IF ~Contains(content_json)
         THEN Raised("ValueError", MSG_NO_GENRES(content_json))
         ELSE Subscript(content_json)

\* validate, with the message of the empty reply reused for the unparsable one.
validate_same_message(found_content) ==
    IF Falsy(found_content)
    THEN Raised("ValueError", MSG_NO_RESPONSE)
    ELSE LET parsed == Loads(found_content.toks) IN
         IF ~parsed.ok
         THEN Raised("ValueError", MSG_NO_RESPONSE)
         ELSE check_genres(parsed.val)

\* validate, without the emptiness check of lines 110-114: json.loads rejects
\* None and "" and the bare except reports both as unparsable.
validate_no_empty_check(found_content) ==
    LET parsed == Loads(found_content.toks) IN
    IF ~found_content.some \/ ~parsed.ok
    THEN Raised("ValueError", MSG_NOT_JSON)
    ELSE check_genres(parsed.val)

\* validate, without the try/except of lines 117-123: the decoder's own
\* exception reaches the caller.
validate_uncaught(found_content) ==
    IF Falsy(found_content)
    THEN Raised("ValueError", MSG_NO_RESPONSE)
    ELSE LET parsed == Loads(found_content.toks) IN
         IF ~parsed.ok
         THEN Raised("JSONDecodeError", <<"Expecting value">>)
         ELSE check_genres(parsed.val)

\* Lines 108-134 of get_response: what the call ends with, given the content
\* of the remote reply.
validate(found_content) ==
    IF Falsy(found_content)
    THEN Raised("ValueError", MSG_NO_RESPONSE)
    ELSE LET parsed == Loads(found_content.toks) IN
         IF ~parsed.ok
         THEN Raised("ValueError", MSG_NOT_JSON)
         ELSE check_genres(parsed.val)

\* Lines 98-106: the arguments of client.chat.completions.create.
completion_request(sanitized_input) ==
    [model           |-> GPT_MODEL,
     response_format |-> RESPONSE_FORMAT,
     seed            |-> SEED,
     messages        |-> << [role |-> "system", content |-> PROMPT],
                            [role |-> "user", content |-> sanitized_input] >>]

\* ------------------------------------------------------------ remote replies
Alphabet ==
    {LBRACE, RBRACE, LBRACK, RBRACK, COLON, COMMA, WS, NULL, FIVE, JUNK,
     S(GENRES), S(POP), S(MY_GENRES)}

TokSeqs == UNION {[1..n -> Alphabet] : n \in 0..MaxTokLen}

FiveGenres ==
    <<LBRACE, S(GENRES), COLON, LBRACK, S(POP), COMMA, S(ROCK), COMMA, S(JAZZ),
      COMMA, S(BLUES), COMMA, S(FOLK), RBRACK, RBRACE>>

MoodHappy == <<LBRACE, S(MOOD), COLON, S(HAPPY), RBRACE>>

\* Six genres with a repeated one.
SixGenres ==
    <<LBRACE, S(GENRES), COLON, LBRACK, S(POP), COMMA, S(POP), COMMA, S(ROCK),
      COMMA, S(JAZZ), COMMA, S(BLUES), COMMA, S(FOLK), RBRACK, RBRACE>>

GenresNumber == <<LBRACE, S(GENRES), COLON, FIVE, RBRACE>>

GenresTwice ==
    <<LBRACE, S(GENRES), COLON, LBRACK, S(POP), RBRACK, COMMA, S(MOOD), COLON,
      NULL, COMMA, S(GENRES), COLON, LBRACK, S(ROCK), RBRACK, RBRACE>>

NotJson == <<JUNK, WS, JUNK>>

Truncated == <<LBRACE, S(GENRES), COLON, LBRACK, S(POP), COMMA>>

Samples ==
    {FiveGenres, MoodHappy, SixGenres, GenresNumber, GenresTwice, Truncated}

\* Every reply of the sequential specification.
Replies == {NoContent} \cup {Text(ts) : ts \in TokSeqs \cup Samples}

\* The replies of the concurrent specification: one per way a call can end.
ReplySample ==
    {NoContent, Text(<<>>), Text(NotJson), Text(MoodHappy), Text(<<FIVE>>),
     Text(FiveGenres)}

\* Sanitized inputs.
Inputs == {<<"happy">>, <<"sad", " ", "and", " ", "tired">>}

\* ---------------------------------------------------------------- the state
Requests == 1..NumRequests

\* What SecretsHandler.get_openai_key() can do when called: return the key or
\* fail with a configuration error.
get_openai_key == {"key", "ConfigurationError"}

VARIABLES
    client_instance,   \* OpenAIHandler._client_instance: 0 is None, n > 0 the n-th OpenAI object
    constructed,       \* how many times OpenAI(...) has run in this process
    key_failures,      \* how often get_openai_key() has failed in this process
    pc,                \* each request's position in the handler
    op,                \* the operation each request called
    sanitized_input,   \* get_response's argument
    client,            \* the handle the call obtained (0: none yet)
    prev_client,       \* the handle the caller's previous call obtained (0: none)
    found_content,     \* the content of the reply the call received
    sent,              \* the completion requests the call has issued
    result             \* what the call ended with

vars ==
    <<client_instance, constructed, key_failures, pc, op, sanitized_input,
      client, prev_client, found_content, sent, result>>

NoInput == <<>>

Init ==
    /\ client_instance = 0
    /\ constructed = 0
    /\ key_failures = 0
    /\ pc = [p \in Requests |-> "idle"]
    /\ op = [p \in Requests |-> "none"]
    /\ sanitized_input = [p \in Requests |-> NoInput]
    /\ client = [p \in Requests |-> 0]
    /\ prev_client = [p \in Requests |-> 0]
    /\ found_content = [p \in Requests |-> NoContent]
    /\ sent = [p \in Requests |-> <<>>]
    /\ result = [p \in Requests |-> NoResult]

\* Where a call goes once it holds a handle: get_client returns it,
\* get_response goes on to the remote call.
AfterClient(p) ==
    IF op[p] = "get_client"
    THEN /\ pc' = [pc EXCEPT ![p] = "done"]
         /\ result' = [result EXCEPT ![p] = Returned(NoneVal)]
    ELSE /\ pc' = [pc EXCEPT ![p] = "create"]
         /\ UNCHANGED result

\* A caller invokes OpenAIHandler.get_client().
call_get_client(p) ==
    /\ pc[p] = "idle"
    /\ pc' = [pc EXCEPT ![p] = "check"]
    /\ op' = [op EXCEPT ![p] = "get_client"]
    /\ UNCHANGED <<client_instance, constructed, key_failures, sanitized_input,
                   client, prev_client, found_content, sent, result>>

\* A caller invokes OpenAIHandler.get_response(s); line 97 calls get_client.
call_get_response(p, s) ==
    /\ pc[p] = "idle"
    /\ pc' = [pc EXCEPT ![p] = "check"]
    /\ op' = [op EXCEPT ![p] = "get_response"]
    /\ sanitized_input' = [sanitized_input EXCEPT ![p] = s]
    /\ UNCHANGED <<client_instance, constructed, key_failures, client,
                   prev_client, found_content, sent, result>>

\* get_client_check, without the test of the memoized handle.
get_client_check_no_memo(p) ==
    /\ pc[p] = "check"
    /\ pc' = [pc EXCEPT ![p] = "key"]
    /\ UNCHANGED <<client_instance, constructed, key_failures, op,
                   sanitized_input, client, prev_client, found_content, sent,
                   result>>

\* Line 38: if OpenAIHandler._client_instance.
get_client_check(p) ==
    /\ pc[p] = "check"
    /\ pc' = [pc EXCEPT ![p] = IF client_instance # 0 THEN "memo" ELSE "key"]
    /\ UNCHANGED <<client_instance, constructed, key_failures, op,
                   sanitized_input, client, prev_client, found_content, sent,
                   result>>

\* Line 39: return OpenAIHandler._client_instance (read again).
get_client_memo(p) ==
    /\ pc[p] = "memo"
    /\ client' = [client EXCEPT ![p] = client_instance]
    /\ AfterClient(p)
    /\ UNCHANGED <<client_instance, constructed, key_failures, op,
                   sanitized_input, prev_client, found_content, sent>>

\* initialize_key, with the provider's failure swallowed: the call returns
\* None instead of raising.
initialize_key_swallowed(p, k) ==
    /\ pc[p] = "key"
    /\ IF k = "key"
       THEN /\ pc' = [pc EXCEPT ![p] = "construct"]
            /\ UNCHANGED <<key_failures, result>>
       ELSE /\ pc' = [pc EXCEPT ![p] = "done"]
            /\ key_failures' =
                 IF key_failures < MaxKeyFailures
                 THEN key_failures + 1 ELSE key_failures
            /\ result' = [result EXCEPT ![p] = Returned(NoneVal)]
    /\ UNCHANGED <<client_instance, constructed, op, sanitized_input, client,
                   prev_client, found_content, sent>>

\* Line 57: the argument SecretsHandler.get_openai_key() is evaluated; when it
\* raises, the exception leaves _initialize_client, get_client and the caller.
initialize_key(p, k) ==
    /\ pc[p] = "key"
    /\ IF k = "key"
       THEN /\ pc' = [pc EXCEPT ![p] = "construct"]
            /\ UNCHANGED <<key_failures, result>>
       ELSE /\ pc' = [pc EXCEPT ![p] = "done"]
            /\ key_failures' =
                 IF key_failures < MaxKeyFailures
                 THEN key_failures + 1 ELSE key_failures
            /\ result' = [result EXCEPT ![p] =
                            Raised("ConfigurationError", <<"openai key">>)]
    /\ UNCHANGED <<client_instance, constructed, op, sanitized_input, client,
                   prev_client, found_content, sent>>

\* Lines 56-58: OpenAI(api_key=...) is constructed and stored.
initialize_construct(p) ==
    /\ pc[p] = "construct"
    /\ constructed' = constructed + 1
    /\ client_instance' = constructed + 1
    /\ pc' = [pc EXCEPT ![p] = "stored"]
    /\ UNCHANGED <<key_failures, op, sanitized_input, client, prev_client,
                   found_content, sent, result>>

\* Line 60: return OpenAIHandler._client_instance.
initialize_return(p) ==
    /\ pc[p] = "stored"
    /\ client' = [client EXCEPT ![p] = client_instance]
    /\ AfterClient(p)
    /\ UNCHANGED <<client_instance, constructed, key_failures, op,
                   sanitized_input, prev_client, found_content, sent>>

\* create_and_validate, asking the remote service once more when the first
\* reply does not validate.
create_with_retry(p, reply) ==
    /\ sent' = [sent EXCEPT ![p] =
                  IF validate(reply).kind = "raise"
                  THEN @ \o << completion_request(sanitized_input[p]),
                               completion_request(sanitized_input[p]) >>
                  ELSE Append(@, completion_request(sanitized_input[p]))]
    /\ found_content' = [found_content EXCEPT ![p] = reply]
    /\ result' = [result EXCEPT ![p] = validate(reply)]
    /\ pc' = [pc EXCEPT ![p] = "done"]
    /\ UNCHANGED <<client_instance, constructed, key_failures, op,
                   sanitized_input, client, prev_client>>

\* Lines 98-134 for one reply of the remote service: the request is issued,
\* the reply arrives and is validated.
create_and_validate(p, reply) ==
    /\ sent' = [sent EXCEPT ![p] =
                  Append(@, completion_request(sanitized_input[p]))]
    /\ found_content' = [found_content EXCEPT ![p] = reply]
    /\ result' = [result EXCEPT ![p] = validate(reply)]
    /\ pc' = [pc EXCEPT ![p] = "done"]
    /\ UNCHANGED <<client_instance, constructed, key_failures, op,
                   sanitized_input, client, prev_client>>

\* Lines 98-134 of get_response, the remote service answering with any of
\* replies.
completions_create(p, replies) ==
    /\ pc[p] = "create"
    /\ \E reply \in replies : create_and_validate(p, reply)

\* The caller takes the result and is free to call again; it keeps the handle
\* it was given, if any.
call_end(p) ==
    /\ pc[p] = "done"
    /\ pc' = [pc EXCEPT ![p] = "idle"]
    /\ op' = [op EXCEPT ![p] = "none"]
    /\ sanitized_input' = [sanitized_input EXCEPT ![p] = NoInput]
    /\ client' = [client EXCEPT ![p] = 0]
    /\ prev_client' =
         [prev_client EXCEPT ![p] = IF client[p] # 0 THEN client[p] ELSE @]
    /\ found_content' = [found_content EXCEPT ![p] = NoContent]
    /\ sent' = [sent EXCEPT ![p] = <<>>]
    /\ result' = [result EXCEPT ![p] = NoResult]
    /\ UNCHANGED <<client_instance, constructed, key_failures>>

\* The request whose handler made the call is answered and gone.
request_end(p) ==
    /\ pc[p] = "done"
    /\ pc' = [pc EXCEPT ![p] = "finished"]
    /\ op' = [op EXCEPT ![p] = "none"]
    /\ sanitized_input' = [sanitized_input EXCEPT ![p] = NoInput]
    /\ client' = [client EXCEPT ![p] = 0]
    /\ found_content' = [found_content EXCEPT ![p] = NoContent]
    /\ sent' = [sent EXCEPT ![p] = <<>>]
    /\ result' = [result EXCEPT ![p] = NoResult]
    /\ UNCHANGED <<client_instance, constructed, key_failures, prev_client>>

\* One step of a call of p, with the replies the remote service may give.
Step(p, replies) ==
    \/ call_get_client(p)
    \/ \E s \in Inputs : call_get_response(p, s)
    \/ get_client_check(p)
    \/ get_client_memo(p)
    \/ \E k \in get_openai_key : initialize_key(p, k)
    \/ initialize_construct(p)
    \/ initialize_return(p)
    \/ completions_create(p, replies)

\* Requests in flight together, each making one call; first-time initialization
\* is not exclusive, so their steps interleave.
Next == \E p \in Requests : Step(p, ReplySample) \/ request_end(p)

Spec == Init /\ [][Next]_vars

\* One caller whose calls follow one another.
NextSeq == Step(1, Replies) \/ call_end(1)

SpecSeq == Init /\ [][NextSeq]_vars

\* ================================================================== claims
\* A get_response call of request p has ended.
Ended(p) == pc[p] = "done" /\ op[p] = "get_response"

\* A get_response call of request p has ended after its remote call.
Answered(p) == Ended(p) /\ sent[p] # <<>>

\* The reply request p received, parsed.
Parsed(p) == Loads(found_content[p].toks)

IsStrList(val) ==
    val.k = "list" /\ \A i \in 1..Len(val.v) : val.v[i].k = "str"

IsObjectWithGenres(val) == val.k = "dict" /\ DictHas(val.v, GENRES)

\* Which of the three failure conditions of a reply holds, if any: no content,
\* content that is not JSON, a JSON object without the genres key.
FailCondition(content) ==
    IF Falsy(content) THEN "empty"
    ELSE LET parsed == Loads(content.toks) IN
         IF ~parsed.ok THEN "malformed"
         ELSE IF parsed.val.k = "dict" /\ ~DictHas(parsed.val.v, GENRES)
              THEN "missing" ELSE "none"

ConfigurationError == Raised("ConfigurationError", <<"openai key">>)

\* The errors of the error taxonomy as the code raises them: the provider's
\* configuration error, and ValueError for the three reply conditions.
DocumentedKinds == {"ConfigurationError", "ValueError"}

\* C1 (as claimed): every get_response call ends either returning a sequence
\* of strings or raising one of the documented error kinds.
C1_Claim ==
    \A p \in Requests :
        Ended(p) =>
            \/ result[p].kind = "return" /\ IsStrList(result[p].value)
            \/ result[p].kind = "raise" /\ result[p].exc \in DocumentedKinds

C3_Idempotent ==
    \A p \in Requests :
        prev_client[p] # 0 =>
            /\ client_instance = prev_client[p]
            /\ constructed = 1
            /\ client[p] \in {0, prev_client[p]}
            /\ pc[p] = "done" => result[p].exc # "ConfigurationError"
            /\ pc[p] = "done" /\ op[p] = "get_client" =>
                   client[p] = prev_client[p] /\ result[p].kind = "return"

\* A second get_client call of a caller has returned the handle of its first.
C3_Witness ==
    /\ pc[1] = "done" /\ op[1] = "get_client"
    /\ prev_client[1] # 0 /\ client[1] = prev_client[1]

\* C4 (as claimed): once the secrets provider has failed to supply the key,
\* no call obtains a handle and every call that ends fails with the
\* configuration error.
C4_Claim ==
    key_failures > 0 =>
        /\ client_instance = 0
        /\ \A p \in Requests :
              /\ client[p] = 0
              /\ pc[p] = "done" => result[p] = ConfigurationError

\* C4 (amended): a call whose key request fails ends with the configuration
\* error, holds no handle and leaves no memoized handle; until a key request
\* has succeeded every call that ends has failed that way, and a call skips
\* initialization only once a handle has been constructed.
C4_Amended ==
    /\ constructed = 0 => client_instance = 0
    /\ \A p \in Requests :
          /\ pc[p] = "done" /\ constructed = 0 =>
                 result[p] = ConfigurationError /\ client[p] = 0
          /\ pc[p] = "done" /\ result[p].exc = "ConfigurationError" =>
                 result[p] = ConfigurationError /\ client[p] = 0
                   /\ key_failures > 0
          /\ pc[p] \in {"key", "construct"} => client[p] = 0
          /\ pc[p] = "memo" => constructed > 0

\* The provider has failed twice in a row: the second call invoked
\* initialization again and failed the same way.
C4_Witness ==
    /\ key_failures >= 2 /\ constructed = 0
    /\ pc[1] = "done" /\ result[1] = ConfigurationError

ConditionMessage(content) ==
    CASE FailCondition(content) = "empty"     -> MSG_NO_RESPONSE
      [] FailCondition(content) = "malformed" -> MSG_NOT_JSON
      [] OTHER -> MSG_NO_GENRES(Loads(content.toks).val)

C6_OneRequest ==
    \A p \in Requests :
        /\ Ended(p) /\ client[p] # 0 =>
              sent[p] = << [model           |-> "gpt-3.5-turbo",
                            response_format |-> [type |-> "json_object"],
                            seed            |-> 69,
                            messages        |->
                                << [role |-> "system", content |-> PROMPT],
                                   [role |-> "user",
                                    content |-> sanitized_input[p]] >>] >>
        /\ ~(Ended(p) /\ client[p] # 0) => sent[p] = <<>>

\* A call whose reply was not JSON has ended having issued its one request,
\* while an earlier call of the same caller had already been answered.
C6_Witness ==
    /\ Ended(1) /\ client[1] # 0 /\ prev_client[1] # 0
    /\ FailCondition(found_content[1]) = "malformed"
    /\ Len(sent[1]) = 1

FiveGenresList ==
    ListVal(<<StrVal(POP), StrVal(ROCK), StrVal(JAZZ), StrVal(BLUES),
              StrVal(FOLK)>>)

SixGenresList ==
    ListVal(<<StrVal(POP), StrVal(POP), StrVal(ROCK), StrVal(JAZZ),
              StrVal(BLUES), StrVal(FOLK)>>)

\* C7: when the reply is a JSON object with a genres key, get_response returns
\* exactly the value stored under it: the five genres of the example in their
\* order, six genres with a repeated one unchanged.
C7_ReturnsGenres ==
    \A p \in Requests :
        Answered(p) =>
            /\ Parsed(p).ok /\ IsObjectWithGenres(Parsed(p).val) =>
                  result[p] = Returned(DictGet(Parsed(p).val.v, GENRES))
            /\ found_content[p] = Text(FiveGenres) =>
                  result[p] = Returned(FiveGenresList)
            /\ found_content[p] = Text(SixGenres) =>
                  result[p] = Returned(SixGenresList)

\* The reply with six genres, one repeated, has been returned.
C7_Witness ==
    /\ Answered(1) /\ found_content[1] = Text(SixGenres)
    /\ result[1].kind = "return" /\ Len(result[1].value.v) = 6

\* C8 (as claimed): when the reply is valid JSON without a genres field, the
\* call raises the missing-field ValueError and the message holds the parsed
\* payload.
C8_Claim ==
    \A p \in Requests :
        (/\ Answered(p) /\ ~Falsy(found_content[p]) /\ Parsed(p).ok
         /\ ~IsObjectWithGenres(Parsed(p).val))
        => /\ result[p].kind = "raise"
           /\ result[p].exc = "ValueError"
           /\ StrContains(result[p].msg, Format(Parsed(p).val))

\* C9: when the reply has no content (None or the empty string) the call
\* raises the no-response ValueError, never the errors of the later checks.
C9_EmptyReply ==
    \A p \in Requests :
        Answered(p) /\ (~found_content[p].some \/ found_content[p].toks = <<>>)
        => result[p] = Raised("ValueError", MSG_NO_RESPONSE)

\* A call that received the empty string has ended.
C9_Witness ==
    /\ Answered(1) /\ found_content[1] = Text(<<>>)
    /\ result[1].kind = "raise"

\* C10: when the reply has content that is not JSON the call raises the
\* not-JSON ValueError: it returns nothing and the genres check is not reached.
C10_Malformed ==
    \A p \in Requests :
        (/\ Answered(p) /\ found_content[p].some
         /\ found_content[p].toks # <<>> /\ ~Parsed(p).ok)
        => result[p] = Raised("ValueError", MSG_NOT_JSON)

\* A call that received the text "not json" has ended.
C10_Witness ==
    /\ Answered(1) /\ found_content[1] = Text(NotJson)
    /\ result[1].kind = "raise"

====
